---- MODULE Spec2Model ----
(***************************************************************************)
(* The invariant-rs macro family: invariant!, invariant_eq!, invariant_ne!,*)
(* invariant_gt!, invariant_ge!, invariant_le!.                            *)
(*                                                                         *)
(* One source program, a sequence of macro call sites, is built twice:     *)
(* with debug_assertions ("debug") and without ("release").  Both builds   *)
(* execute the same call sites in lock step, each on its own state, so     *)
(* that statements comparing the two builds are statements about one       *)
(* state of the model.                                                     *)
(*                                                                         *)
(* Operands are expressions: a literal, or the side-effecting block        *)
(* `{ c += 1; c }` on the build's counter c.  Values are numbers or the    *)
(* float NaN, which is incomparable with everything (PartialOrd).          *)
(* The condition of invariant!(cond) is the expression `l > r`.            *)
(*                                                                         *)
(* invariant_lt! is declared in lib.rs but its file is not part of the     *)
(* sources at hand; it is not modelled.                                    *)
(***************************************************************************)
EXTENDS Integers, Sequences, FiniteSets, TLC

\* number of macro call sites the program executes
MaxCalls == 2

Modes == {"debug", "release"}

Forms == {"default", "custom"}

Num(n) == [nan |-> FALSE, n |-> n]

NaN == [nan |-> TRUE, n |-> 0]

\* the literal operands: two numbers, so that <, = and > all occur, and NaN
Literals == {Num(0), Num(1), NaN}

Operands == {[kind |-> "lit", v |-> x] : x \in Literals} \cup {[kind |-> "next", v |-> Num(0)]}

Macros == {"invariant", "invariant_eq", "invariant_ne", "invariant_gt", "invariant_ge", "invariant_le"}

\* ---- the native comparisons of the operand type (PartialEq, PartialOrd)
Eq(a, b) == ~a.nan /\ ~b.nan /\ a.n = b.n

Ne(a, b) == a.nan \/ b.nan \/ a.n # b.n

Lt(a, b) == ~a.nan /\ ~b.nan /\ a.n < b.n

Le(a, b) == ~a.nan /\ ~b.nan /\ a.n <= b.n

Gt(a, b) == ~a.nan /\ ~b.nan /\ a.n > b.n

\* ---- panic payloads: which texts the panic message contains
NoPanic == [header |-> FALSE, operands |-> FALSE, custom |-> FALSE]

\* "assertion failed: <cond>"
CondText == [header |-> TRUE, operands |-> FALSE, custom |-> FALSE]

\* "assertion failed: `(left op right)`\n left: ..\n right: .."
OperandText == [header |-> TRUE, operands |-> TRUE, custom |-> FALSE]

\* the caller's message alone
CustomText == [header |-> FALSE, operands |-> FALSE, custom |-> TRUE]

\* assert_eq!/assert_ne! with a message: "assertion `left == right` failed: <msg>\n left: ..\n right: .."
OperandCustomText == [header |-> TRUE, operands |-> TRUE, custom |-> TRUE]

VARIABLES build, calls, call

vars == <<build, calls, call>>

NoCall == [macro |-> "none", form |-> "default", l |-> [kind |-> "lit", v |-> Num(0)], r |-> [kind |-> "lit", v |-> Num(0)], wt |-> TRUE]

InitBuild == [pc |-> "run", counter |-> 0, trace |-> <<>>, at |-> 0, hint |-> FALSE, next |-> FALSE, panic |-> NoPanic, evals |-> [s \in {"L", "R", "M"} |-> 0], cmpL |-> Num(0), cmpR |-> Num(0)]

Init == build = [m \in Modes |-> InitBuild] /\ calls = 0 /\ call = NoCall

\* ---- steps of an expansion, on one build's state b
\* one evaluation of an operand expression
EvalOperand(b, e, side) == [b EXCEPT !.counter = IF e.kind = "next" THEN @ + 1 ELSE @, !.trace = Append(@, side), !.evals[side] = @ + 1]

ValOf(b, e) == IF e.kind = "next" THEN Num(b.counter + 1) ELSE e.v

\* `$left op $right`: left is evaluated, then right; the values compared are kept
Compare(b, l, r) == LET b1 == EvalOperand(b, l, "L") IN [EvalOperand(b1, r, "R") EXCEPT !.cmpL = ValOf(b, l), !.cmpR = ValOf(b1, r)]

\* the format arguments `$($arg)+` are evaluated (they may have side effects)
FormatArgs(b) == [b EXCEPT !.counter = @ + 1, !.trace = Append(@, "M"), !.evals["M"] = @ + 1]

Panic(b, text) == [b EXCEPT !.pc = "panicked", !.panic = text]

Unreachable(b) == [b EXCEPT !.pc = "ub", !.hint = TRUE]

\* the call's expansion does not type-check: this build has no executable
Reject(b) == [b EXCEPT !.pc = "rejected"]

\* `if cfg!(debug_assertions) { .. }` keeps its body in both builds: it is type-checked, and dead in release
CfgMacroCompiled(mode) == TRUE

\* `#[cfg(debug_assertions)] { .. }` removes the block from the release build before type checking
CfgAttrCompiled(mode) == mode = "debug"

\* ---- the condition of invariant!(cond): the expression `l > r` (as in `x > 0`)
Cond(lv, rv) == Gt(lv, rv)

\* ---- core::assert!, core::assert_eq!, core::assert_ne! and their debug_ forms
core_assert(b, form, l, r) == LET b1 == Compare(b, l, r) IN IF ~Cond(b1.cmpL, b1.cmpR) THEN (IF form = "custom" THEN Panic(FormatArgs(b1), CustomText) ELSE Panic(b1, CondText)) ELSE b1

core_assert_eq(b, form, l, r) == LET b1 == Compare(b, l, r) IN IF ~Eq(b1.cmpL, b1.cmpR) THEN (IF form = "custom" THEN Panic(FormatArgs(b1), OperandCustomText) ELSE Panic(b1, OperandText)) ELSE b1

core_assert_ne(b, form, l, r) == LET b1 == Compare(b, l, r) IN IF Eq(b1.cmpL, b1.cmpR) THEN (IF form = "custom" THEN Panic(FormatArgs(b1), OperandCustomText) ELSE Panic(b1, OperandText)) ELSE b1

\* mutant: the assertion is compiled out of the debug build as well
debug_assert_elided(b, form, l, r, mode) == b

\* mutant: assert_ne! in place of debug_assert_ne!, checked in release as well
debug_assert_ne_always(b, form, l, r, mode) == core_assert_ne(b, form, l, r)

\* debug_assert!(..) is `if cfg!(debug_assertions) { assert!(..) }`
debug_assert(b, form, l, r, mode) == IF mode = "debug" THEN core_assert(b, form, l, r) ELSE b

debug_assert_eq(b, form, l, r, mode) == IF mode = "debug" THEN core_assert_eq(b, form, l, r) ELSE b

debug_assert_ne(b, form, l, r, mode) == IF mode = "debug" THEN core_assert_ne(b, form, l, r) ELSE b

\* ---- the tests the expansions branch on
\* mutant: the negation is lost, `if $cond`
invariant_release_check_unnegated(lv, rv) == Cond(lv, rv)

\* mutant: `if $left != $right`, copied from invariant_eq
ne_release_check_copied(lv, rv) == Ne(lv, rv)

\* mutant: `if $left < $right` in the release block of invariant_gt
gt_release_check_strict(lv, rv) == Lt(lv, rv)

\* mutant: `if $left <= $right` in the debug block of invariant_ge
ge_debug_check_nonstrict(lv, rv) == Le(lv, rv)

\* mutant: the caller's message is dropped for the default text
CustomPanic_default(b) == Panic(FormatArgs(b), OperandText)

\* `if !($cond)`
invariant_release_check(lv, rv) == ~Cond(lv, rv)

\* `if $left != $right`
eq_release_check(lv, rv) == Ne(lv, rv)

\* `if $left == $right`
ne_release_check(lv, rv) == Eq(lv, rv)

\* `if $left <= $right`
gt_debug_check(lv, rv) == Le(lv, rv)

gt_release_check(lv, rv) == Le(lv, rv)

\* `if $left < $right`
ge_debug_check(lv, rv) == Lt(lv, rv)

ge_release_check(lv, rv) == Lt(lv, rv)

\* `if $left > $right`
le_debug_check(lv, rv) == Gt(lv, rv)

le_release_check(lv, rv) == Gt(lv, rv)

\* `panic!("..{}..{}", $left, $right)`: the operands are expanded, and evaluated, a second time
DefaultPanic(b, l, r) == Panic(EvalOperand(EvalOperand(b, l, "L"), r, "R"), OperandText)

\* `panic!($($arg)+)`
CustomPanic(b) == Panic(FormatArgs(b), CustomText)

\* ---- the macros: b is the build's state at the call, the result its state after the expansion
invariant(b, form, l, r, wt, mode) ==
  IF form = "custom" /\ ~wt /\ CfgMacroCompiled(mode) THEN Reject(b)
  ELSE LET b1 == debug_assert(b, form, l, r, mode)
       IN IF b1.pc # "run" \/ mode # "release" THEN b1
          ELSE LET b2 == Compare(b1, l, r)
               IN IF invariant_release_check(b2.cmpL, b2.cmpR) THEN Unreachable(b2) ELSE b2

invariant_eq(b, form, l, r, wt, mode) ==
  IF form = "custom" /\ ~wt /\ CfgMacroCompiled(mode) THEN Reject(b)
  ELSE LET b1 == debug_assert_eq(b, form, l, r, mode)
       IN IF b1.pc # "run" \/ mode # "release" THEN b1
          ELSE LET b2 == Compare(b1, l, r)
               IN IF eq_release_check(b2.cmpL, b2.cmpR) THEN Unreachable(b2) ELSE b2

invariant_ne(b, form, l, r, wt, mode) ==
  IF form = "custom" /\ ~wt /\ CfgMacroCompiled(mode) THEN Reject(b)
  ELSE LET b1 == debug_assert_ne(b, form, l, r, mode)
       IN IF b1.pc # "run" \/ mode # "release" THEN b1
          ELSE LET b2 == Compare(b1, l, r)
               IN IF ne_release_check(b2.cmpL, b2.cmpR) THEN Unreachable(b2) ELSE b2

invariant_gt(b, form, l, r, wt, mode) ==
  IF form = "custom" /\ ~wt /\ CfgAttrCompiled(mode) THEN Reject(b)
  ELSE LET b1 == Compare(b, l, r)
       IN IF mode = "debug"
          THEN IF gt_debug_check(b1.cmpL, b1.cmpR)
               THEN (IF form = "custom" THEN CustomPanic(b1) ELSE DefaultPanic(b1, l, r))
               ELSE b1
          ELSE IF gt_release_check(b1.cmpL, b1.cmpR) THEN Unreachable(b1) ELSE b1

invariant_ge(b, form, l, r, wt, mode) ==
  IF form = "custom" /\ ~wt /\ CfgAttrCompiled(mode) THEN Reject(b)
  ELSE LET b1 == Compare(b, l, r)
       IN IF mode = "debug"
          THEN IF ge_debug_check(b1.cmpL, b1.cmpR)
               THEN (IF form = "custom" THEN CustomPanic(b1) ELSE DefaultPanic(b1, l, r))
               ELSE b1
          ELSE IF ge_release_check(b1.cmpL, b1.cmpR) THEN Unreachable(b1) ELSE b1

invariant_le(b, form, l, r, wt, mode) ==
  IF form = "custom" /\ ~wt /\ CfgAttrCompiled(mode) THEN Reject(b)
  ELSE LET b1 == Compare(b, l, r)
       IN IF mode = "debug"
          THEN IF le_debug_check(b1.cmpL, b1.cmpR)
               THEN (IF form = "custom" THEN CustomPanic(b1) ELSE DefaultPanic(b1, l, r))
               ELSE b1
          ELSE IF le_release_check(b1.cmpL, b1.cmpR) THEN Unreachable(b1) ELSE b1

\* ---- the program: call sites executed one after the other by both builds
\* a call site; the default form has no message, so nothing of it can be ill-typed
CallSites(macro) == {c \in [macro : {macro}, form : Forms, l : Operands, r : Operands, wt : BOOLEAN] : c.form = "default" => c.wt}

Expand(b, c, mode) ==
  CASE c.macro = "invariant" -> invariant(b, c.form, c.l, c.r, c.wt, mode)
    [] c.macro = "invariant_eq" -> invariant_eq(b, c.form, c.l, c.r, c.wt, mode)
    [] c.macro = "invariant_ne" -> invariant_ne(b, c.form, c.l, c.r, c.wt, mode)
    [] c.macro = "invariant_gt" -> invariant_gt(b, c.form, c.l, c.r, c.wt, mode)
    [] c.macro = "invariant_ge" -> invariant_ge(b, c.form, c.l, c.r, c.wt, mode)
    [] c.macro = "invariant_le" -> invariant_le(b, c.form, c.l, c.r, c.wt, mode)

\* one build reaches the call site, runs the expansion, and goes on to the next statement if it may
Step(b, c, mode) ==
  LET b0 == [b EXCEPT !.at = @ + 1, !.hint = FALSE, !.next = FALSE, !.evals = [s \in {"L", "R", "M"} |-> 0]]
      b1 == Expand(b0, c, mode)
  IN IF b1.pc = "run" THEN [b1 EXCEPT !.next = TRUE] ELSE b1

CallSite(c) ==
  /\ calls < MaxCalls
  /\ \E m \in Modes : build[m].pc = "run"
  /\ build' = [m \in Modes |-> IF build[m].pc = "run" THEN Step(build[m], c, m) ELSE build[m]]
  /\ calls' = calls + 1
  /\ call' = c

Invariant == \E c \in CallSites("invariant") : CallSite(c)

InvariantEq == \E c \in CallSites("invariant_eq") : CallSite(c)

InvariantNe == \E c \in CallSites("invariant_ne") : CallSite(c)

InvariantGt == \E c \in CallSites("invariant_gt") : CallSite(c)

InvariantGe == \E c \in CallSites("invariant_ge") : CallSite(c)

InvariantLe == \E c \in CallSites("invariant_le") : CallSite(c)

\* core::hint::unreachable_unchecked() was reached: undefined behaviour.  The build
\* either goes on as if the test had not been there, or stops.
Undefined ==
  \E m \in Modes, o \in {"run", "halted"} :
    /\ build[m].pc = "ub"
    /\ build' = [build EXCEPT ![m].pc = o, ![m].next = (o = "run")]
    /\ UNCHANGED <<calls, call>>

Next == Invariant \/ InvariantEq \/ InvariantNe \/ InvariantGt \/ InvariantGe \/ InvariantLe \/ Undefined

Spec == Init /\ [][Next]_vars

TypeOK ==
  /\ calls \in 0..MaxCalls
  /\ \A m \in Modes : build[m].pc \in {"run", "panicked", "ub", "halted", "rejected"} /\ build[m].at <= calls

\* ---- vocabulary of the properties
\* build m has reached the latest call site
At(m) == calls > 0 /\ build[m].at = calls

\* build m has executed the expansion of the latest call site
Ran(m) == At(m) /\ build[m].pc # "rejected"

Panicked(m) == build[m].pc = "panicked"

\* the latest call left build m untouched by panic and hint, and the next statement ran
Silent(m) == build[m].pc = "run" /\ ~build[m].hint /\ build[m].panic = NoPanic /\ build[m].next

\* `l >= r` of the operand type
Ge(a, b) == ~a.nan /\ ~b.nan /\ a.n >= b.n

\* the relation a macro states, on the values the build compared
Holds(m) ==
  CASE call.macro = "invariant" -> Cond(build[m].cmpL, build[m].cmpR)
    [] call.macro = "invariant_eq" -> Eq(build[m].cmpL, build[m].cmpR)
    [] call.macro = "invariant_ne" -> Ne(build[m].cmpL, build[m].cmpR)
    [] call.macro = "invariant_gt" -> Gt(build[m].cmpL, build[m].cmpR)
    [] call.macro = "invariant_ge" -> Ge(build[m].cmpL, build[m].cmpR)
    [] call.macro = "invariant_le" -> Le(build[m].cmpL, build[m].cmpR)
    [] OTHER -> TRUE

\* C1: invariant!(C) with C true, in either form and either build: no panic, no
\* unreachable hint, and the statement after the call runs.
C1_TrueConditionSilent ==
  \A m \in Modes : (Ran(m) /\ call.macro = "invariant" /\ Holds(m)) => Silent(m)

C1_Witness ==
  /\ call.macro = "invariant" /\ call.form = "custom"
  /\ \A m \in Modes : Ran(m) /\ Holds(m) /\ build[m].next

\* C2: invariant!(C) with C false: the debug build panics at the call and the next
\* statement does not run; the release build runs no panic path and reaches the hint.
C2_FalseCondition ==
  (call.macro = "invariant") =>
    /\ (Ran("debug") /\ ~Holds("debug")) => (Panicked("debug") /\ build["debug"].panic # NoPanic /\ ~build["debug"].next /\ ~build["debug"].hint)
    /\ (Ran("release") /\ ~Holds("release")) => (build["release"].hint /\ ~Panicked("release") /\ build["release"].panic = NoPanic)

C2_Witness ==
  /\ call.macro = "invariant"
  /\ Ran("debug") /\ ~Holds("debug") /\ Panicked("debug")
  /\ Ran("release") /\ ~Holds("release") /\ build["release"].pc = "ub"

\* C3: invariant_gt, invariant_ge, invariant_le panic (debug) and reach the hint
\* (release) exactly when l > r, l >= r, l <= r does not hold, incomparable
\* operands included.
C3_OrderingExact ==
  (call.macro \in {"invariant_gt", "invariant_ge", "invariant_le"}) =>
    /\ Ran("debug") => (Panicked("debug") <=> ~Holds("debug"))
    /\ Ran("release") => (build["release"].hint <=> ~Holds("release"))

\* C4: invariant_eq panics (debug) and reaches the hint (release) exactly when
\* l == r is false, invariant_ne exactly when l != r is false; the release build
\* of neither runs a panic path.
C4_EqNeExact ==
  (call.macro \in {"invariant_eq", "invariant_ne"}) =>
    /\ Ran("debug") => (Panicked("debug") <=> ~Holds("debug"))
    /\ Ran("release") => ((build["release"].hint <=> ~Holds("release")) /\ ~Panicked("release") /\ build["release"].panic = NoPanic)

C4_Witness ==
  /\ call.macro = "invariant_ne" /\ ~Holds("debug") /\ ~Holds("release")
  /\ Ran("debug") /\ Panicked("debug")
  /\ Ran("release") /\ build["release"].hint

\* C5: a call of invariant_eq, _ne, _gt, _ge, _le whose relation holds completes
\* silently in both builds and both forms.
C5_SatisfiedSilent ==
  \A m \in Modes : (Ran(m) /\ call.macro \in (Macros \ {"invariant"}) /\ Holds(m)) => Silent(m)

C5_Witness ==
  /\ call.macro = "invariant_ge" /\ call.form = "custom"
  /\ \A m \in Modes : Ran(m) /\ Holds(m) /\ build[m].cmpL = build[m].cmpR /\ build[m].next

\* C6: every operand is evaluated exactly once per call, in both builds and both
\* forms, whether the invariant holds or not.
C6_EvaluatedOnce ==
  \A m \in Modes : Ran(m) => (build[m].evals["L"] = 1 /\ build[m].evals["R"] = 1)

C8_SameRun ==
  (build["debug"].pc = "run") => (build["release"] = build["debug"])

C8_Witness ==
  /\ calls = MaxCalls /\ At("debug") /\ At("release")
  /\ build["debug"].pc = "run" /\ build["release"].pc = "run"
  /\ call.l.kind = "next" /\ call.r.kind = "next"
  /\ build["debug"].counter >= 3 /\ Len(build["release"].trace) = 2 * MaxCalls

\* C9: a custom-form call compiles in the debug build exactly if it compiles in
\* the release build: the message is type-checked in both.
C9_CompilesAlike ==
  (call.form = "custom" /\ At("debug") /\ At("release")) =>
    ((build["debug"].pc = "rejected") <=> (build["release"].pc = "rejected"))

\* C10: with side-effect-free operands, the debug build panics at a call exactly
\* if the release build reaches the hint there.
C10_SamePredicate ==
  (Ran("debug") /\ Ran("release") /\ call.l.kind = "lit" /\ call.r.kind = "lit") =>
    (Panicked("debug") <=> build["release"].hint)

C10_Witness ==
  /\ call.macro = "invariant_gt" /\ call.l.kind = "lit" /\ call.r.kind = "lit"
  /\ call.l.v = call.r.v /\ ~call.l.v.nan
  /\ Ran("debug") /\ Ran("release") /\ Panicked("debug") /\ build["release"].hint

====
